---- MODULE Spec2Model ----
(***************************************************************************)
(* Model of scripts/classification/imagenet/common/dali_utils.py:          *)
(*   - SyntheticDataIter            (SpecIter)                             *)
(*   - get_rec_pipeline_iter        (SpecShard, SpecPipe)                  *)
(*   - add_dali_pipeline_args       (SpecArgs)                             *)
(* Strings whose characters the code inspects (split(','), int(), the `in` *)
(* substring test, argparse's destination name) are sequences of           *)
(* one-character strings; strings that are only compared are TLA+ strings. *)
(***************************************************************************)
EXTENDS Integers, Sequences, FiniteSets, TLC

VARIABLES
    \* ---- SyntheticDataIter fields (dali_utils.py:190-203)
    batch_size, num_gpus, epoch_size, cur_sample, data, label,
    \* ---- what the last call on the iterator returned, and observers of the run
    ret, lastOp, prevOp, calls, yielded, firstRet, wasExhausted,
    \* ---- get_rec_pipeline_iter: its parameters (dali_utils.py:235), the cluster
    \*      it runs in, the (C, H, W) the caller means, and what it returned to the
    \*      worker of each rank
    args, kv, dali_cpu, prop_args, cluster, chw, result,
    \* ---- add_dali_pipeline_args: its parameters (dali_utils.py:38), its local
    \*      default_args, the options registered with the parser, what it returned
    task_args, do_parsing, default_args, registered, returned

iterVars == <<batch_size, num_gpus, epoch_size, cur_sample, data, label,
              ret, lastOp, prevOp, calls, yielded, firstRet, wasExhausted>>

pipeVars == <<args, kv, dali_cpu, prop_args, cluster, chw, result>>

argVars == <<task_args, do_parsing, default_args, registered, returned>>

vars == <<iterVars, pipeVars, argVars>>

----------------------------------------------------------------------------
(* Bounds of the iterator model *)
MaxEpoch == 6
MaxBatch == 2
MaxIterGpus == 2
\* calls of next() explored per epoch: enough to run past the end of the longest epoch
MaxCalls == MaxEpoch + 3

\* np.random draws of __init__ (lines 200-201), abstracted to a small set of seeds
Draws == {0, 1}

\* target shape used for the synthetic tensors (C, H, W)
IterTargetShape == <<3, 4, 4>>

\* ceil(a / b) for b > 0
CeilDiv(a, b) == -((-a) \div b)

NoReturn == [kind |-> "none", batches |-> <<>>]
StopIteration == [kind |-> "StopIteration", batches |-> <<>>]

\* mx.nd.array(data, ctx=mx.gpu(i)) / mx.nd.array(label, ctx=cpu_pinned): lines 202-203
NDArray(values, shape, ctx) == [values |-> values, shape |-> shape, ctx |-> ctx]

\* [DataBatch(data=(d,), label=(l,), pad=0) for d, l in zip(self.data, self.label)]
DataBatches(d, l) ==
    [kind |-> "batches",
     batches |-> [i \in 1..Len(d) |-> [data |-> d[i], label |-> l[i], pad |-> 0]]]

\* SyntheticDataIter.__init__(num_classes, data_shape, epoch_size, dtype, gpus, layout)
SyntheticDataIterInit(data_shape, E, gpus, dseed, lseed) ==
    /\ batch_size = data_shape[1]
    /\ cur_sample = 0
    /\ epoch_size = E
    /\ num_gpus = Len(gpus)
    /\ data = [i \in 1..Len(gpus) |-> NDArray(dseed, data_shape, gpus[i])]
    /\ label = [i \in 1..Len(gpus) |-> NDArray(lseed, <<data_shape[1]>>, "cpu_pinned")]

\* no call of get_rec_pipeline_iter is part of the iterator's runs
PipeIdle ==
    /\ args = [image_shape |-> <<>>]
    /\ kv = FALSE
    /\ dali_cpu = "None"
    /\ prop_args = FALSE
    /\ cluster = [backend |-> "none", nWorkers |-> 0]
    /\ chw = <<>>
    /\ result = <<>>

\* no call of add_dali_pipeline_args is part of the other runs
ArgsIdle ==
    /\ task_args = <<>>
    /\ do_parsing = FALSE
    /\ default_args = <<>>
    /\ registered = <<>>
    /\ returned = "idle"

InitIter ==
    /\ PipeIdle
    /\ ArgsIdle
    /\ \E B \in 1..MaxBatch, G \in 1..MaxIterGpus, E \in -1..MaxEpoch,
          dseed \in Draws, lseed \in Draws :
          SyntheticDataIterInit(<<B>> \o IterTargetShape, E,
                                [i \in 1..G |-> i - 1], dseed, lseed)
    /\ ret = NoReturn
    /\ lastOp = "init"
    /\ prevOp = "init"
    /\ calls = 0
    /\ yielded = 0
    /\ firstRet = NoReturn
    /\ wasExhausted = FALSE

\* the guard of next(): line 219
HasBudget == cur_sample <= epoch_size

\* the same branch, advancing the counter by one device's batch only
NextBatchPerDevice ==
    /\ calls < MaxCalls
    /\ HasBudget
    /\ cur_sample' = cur_sample + batch_size
    /\ ret' = DataBatches(data, label)
    /\ yielded' = yielded + 1
    /\ calls' = calls + 1
    /\ firstRet' = IF firstRet.kind = "none" THEN DataBatches(data, label) ELSE firstRet
    /\ lastOp' = "next"
    /\ prevOp' = lastOp
    /\ UNCHANGED <<batch_size, num_gpus, epoch_size, data, label, wasExhausted>>
    /\ UNCHANGED <<pipeVars, argVars>>

\* SyntheticDataIter.next, the branch that returns a batch: lines 219-224
NextBatch ==
    /\ calls < MaxCalls
    /\ HasBudget
    /\ cur_sample' = cur_sample + batch_size * num_gpus
    /\ ret' = DataBatches(data, label)
    /\ yielded' = yielded + 1
    /\ calls' = calls + 1
    /\ firstRet' = IF firstRet.kind = "none" THEN DataBatches(data, label) ELSE firstRet
    /\ lastOp' = "next"
    /\ prevOp' = lastOp
    /\ UNCHANGED <<batch_size, num_gpus, epoch_size, data, label, wasExhausted>>
    /\ UNCHANGED <<pipeVars, argVars>>

\* SyntheticDataIter.next, the branch that raises StopIteration: lines 225-226
NextStop ==
    /\ calls < MaxCalls
    /\ ~HasBudget
    /\ ret' = StopIteration
    /\ wasExhausted' = TRUE
    /\ calls' = calls + 1
    /\ firstRet' = IF firstRet.kind = "none" THEN StopIteration ELSE firstRet
    /\ lastOp' = "next"
    /\ prevOp' = lastOp
    /\ UNCHANGED <<batch_size, num_gpus, epoch_size, cur_sample, data, label, yielded>>
    /\ UNCHANGED <<pipeVars, argVars>>

\* a reset that forgets to rewind the sample counter
ResetKeepsCounter ==
    /\ cur_sample' = cur_sample
    /\ ret' = NoReturn
    /\ calls' = 0
    /\ yielded' = 0
    /\ lastOp' = "reset"
    /\ prevOp' = lastOp
    /\ UNCHANGED <<batch_size, num_gpus, epoch_size, data, label, firstRet, wasExhausted>>
    /\ UNCHANGED <<pipeVars, argVars>>

\* SyntheticDataIter.reset: lines 231-232
Reset ==
    /\ cur_sample' = 0
    /\ ret' = NoReturn
    /\ calls' = 0
    /\ yielded' = 0
    /\ lastOp' = "reset"
    /\ prevOp' = lastOp
    /\ UNCHANGED <<batch_size, num_gpus, epoch_size, data, label, firstRet, wasExhausted>>
    /\ UNCHANGED <<pipeVars, argVars>>

NextIter == NextBatch \/ NextStop \/ Reset

SpecIter == InitIter /\ [][NextIter]_vars

----------------------------------------------------------------------------
(* Claims about SyntheticDataIter *)

\* samples consumed by one call of next()
Stride == batch_size * num_gpus

\* C2: counting the calls of next() since construction or the last reset, a call
\* signals exhaustion exactly when its number is at least
\* ceil(epoch_size / (batch_size * num_gpus)) + 1; every earlier call returns a batch.
C2_ExhaustsAtCeilPlusOne ==
    lastOp = "next" =>
        (ret.kind = "StopIteration" <=> calls >= CeilDiv(epoch_size, Stride) + 1)

\* batches one epoch yields before the first StopIteration, from the fixed fields
EpochBatches == IF epoch_size < 0 THEN 0 ELSE (epoch_size \div Stride) + 1

C3_State ==
    /\ lastOp = "reset" => cur_sample = 0
    /\ (lastOp = "next" /\ prevOp = "reset") => ret = firstRet
    /\ ret.kind = "batches" => ret = firstRet
    /\ ret.kind = "StopIteration" => yielded = EpochBatches

\* C3: reset() puts the sample counter back to 0 from any state; the next() that
\* follows a reset returns what the first next() after construction returned
\* (same tensors, same shapes); every epoch yields the same number of batches
\* before exhaustion; no step changes the stored data and label tensors.
C3_ResetRestoresInitialState ==
    []C3_State /\ [][data' = data /\ label' = label]_vars

\* an epoch was run to exhaustion, reset() was called, and next() returned a batch
C3_Witness ==
    /\ wasExhausted
    /\ lastOp = "next"
    /\ prevOp = "reset"
    /\ ret.kind = "batches"
    /\ num_gpus > 1

C10_State ==
    /\ cur_sample >= 0
    /\ cur_sample % Stride = 0
    /\ epoch_size >= 0 => cur_sample <= epoch_size + Stride

C10_Step ==
    /\ lastOp' = "next" => cur_sample' >= cur_sample
    /\ lastOp' = "next" => (ret'.kind = "batches" <=> cur_sample <= epoch_size)
    /\ (lastOp' = "next" /\ ret'.kind = "StopIteration") => cur_sample' = cur_sample
    /\ (ret.kind = "StopIteration" /\ lastOp' = "next") => ret'.kind = "StopIteration"

\* C10: under any interleaving of next() and reset() the sample counter is a
\* non-negative multiple of batch_size * num_gpus, at most epoch_size +
\* batch_size * num_gpus when epoch_size >= 0; next() never decreases it; whether
\* next() returns a batch is decided by comparing the counter with epoch_size; an
\* exhausting next() leaves the counter alone, so exhaustion persists until reset().
C10_CounterBookkeeping ==
    []C10_State /\ [][C10_Step]_vars

\* two exhausting calls in a row after a whole epoch of several devices
C10_Witness ==
    /\ ret.kind = "StopIteration"
    /\ lastOp = "next"
    /\ prevOp = "next"
    /\ calls >= yielded + 2
    /\ yielded >= 2
    /\ num_gpus > 1
    /\ cur_sample = epoch_size + Stride

----------------------------------------------------------------------------
(* Strings the code takes apart, as sequences of one-character strings *)

Digits == <<"0", "1", "2", "3", "4", "5", "6", "7", "8", "9">>

DigitVal(c) == (CHOOSE i \in 1..10 : Digits[i] = c) - 1

\* str.split(','): "a,,b" gives ["a", "", "b"], "" gives [""]
RECURSIVE SplitFrom(_, _, _)
SplitFrom(s, i, cur) ==
    IF i > Len(s) THEN <<cur>>
    ELSE IF s[i] = "," THEN <<cur>> \o SplitFrom(s, i + 1, <<>>)
    ELSE SplitFrom(s, i + 1, Append(cur, s[i]))

Split(s) == SplitFrom(s, 1, <<>>)

\* int(l) / float(l) of a string of decimal digits
RECURSIVE IntOf(_)
IntOf(cs) ==
    IF cs = <<>> THEN 0
    ELSE 10 * IntOf(SubSeq(cs, 1, Len(cs) - 1)) + DigitVal(cs[Len(cs)])

\* [int(l) for l in parts]
IntsOf(parts) == [i \in 1..Len(parts) |-> IntOf(parts[i])]

\* filter(None, parts): drops the empty strings
FilterNonEmpty(parts) == SelectSeq(parts, LAMBDA part : part # <<>>)

\* the decimal text of a natural number, as the command line carries it
RECURSIVE StrOf(_)
StrOf(n) ==
    IF n < 10 THEN <<Digits[n + 1]>>
    ELSE StrOf(n \div 10) \o <<Digits[(n % 10) + 1]>>

\* ",".join(str(x) for x in xs)
RECURSIVE JoinComma(_)
JoinComma(xs) ==
    IF xs = <<>> THEN <<>>
    ELSE IF Len(xs) = 1 THEN StrOf(xs[1])
    ELSE StrOf(xs[1]) \o <<",">> \o JoinComma(Tail(xs))

----------------------------------------------------------------------------
(* Module constants *)

\* _Reader: line 32
DefaultReader == "Reader"

\* _mean_pixel, _std_pixel: lines 33-34, in thousandths (255 * 0.485 = 123.675)
MeanPixel == [t |-> "list", v |-> <<123675, 116280, 103530>>]
StdPixel == [t |-> "list", v |-> <<58395, 57120, 57375>>]

----------------------------------------------------------------------------
(* get_attribute: lines 78-84.  A value is [t |-> its Python type, v |-> it]. *)

\* hasattr(args, attr_name), for an args that may be None
HasAttr(a, attr_name) == a.isNone = FALSE /\ a.ns[attr_name].has

\* list(map(float, attr.split(',')))
FloatsOf(cs) == [t |-> "list", v |-> [i \in 1..Len(Split(cs)) |-> 1000 * IntOf(Split(cs)[i])]]

\* line 81 stores hasattr(args, attr_name), a bool, so the str branch of line 82 is
\* never taken
get_attribute(a, attr_name, def_value) ==
    IF HasAttr(a, attr_name)
    THEN LET attr == [t |-> "bool", v |-> HasAttr(a, attr_name)]
         IN  IF attr.t = "str" THEN FloatsOf(attr.v) ELSE attr
    ELSE def_value

----------------------------------------------------------------------------
(* get_rec_pipeline_iter: lines 235-368, as run by the worker of rank r *)

\* hvd.rank(), hvd.size(), hvd.local_rank(): the workers share one host
HvdRank(r) == r
HvdSize == cluster.nWorkers
HvdLocalRank(r) == r

\* 'horovod' in args.kvstore, over the kvstore names the model draws
HasHorovod(name) == name \in {"horovod", "dist_horovod"}

\* lines 254-256
TargetShape ==
    IF args.image_shape.isStr
    THEN IntsOf(Split(args.image_shape.str))
    ELSE args.image_shape.tup

\* lines 258-263
Gpus(r) ==
    IF args.gpus.has
    THEN IF args.gpus.isStr
         THEN IntsOf(FilterNonEmpty(Split(args.gpus.str)))
         ELSE args.gpus.lst
    ELSE IF HasHorovod(args.kvstore)
         THEN <<HvdLocalRank(r)>>
         ELSE [i \in 1..args.n_GPUs |-> i - 1]

\* line 266
IsSynthetic == args.synthetic.has /\ args.synthetic.val = 1

\* lines 268-270: the synthetic iterator's constructor arguments
SyntheticTrain(r) ==
    LET ts == TargetShape
        tshape == IF args.input_layout = "NHWC" THEN Tail(ts) \o <<Head(ts)>> ELSE ts
    IN  [kind |-> "synthetic",
         pipes |-> <<>>,
         size |-> args.num_examples,
         reader |-> [isNone |-> TRUE, name |-> ""],
         fill_last_batch |-> TRUE,
         data_shape |-> <<args.batch_size>> \o tshape,
         gpus |-> Gpus(r),
         layout |-> args.input_layout]

\* line 274
PadOutput(target_shape) == target_shape[1] = 4

\* line 279
OutputLayout == IF args.input_layout = "NHWC" THEN "NHWC" ELSE "NCHW"

\* lines 281-286
Rank(r) == IF HasHorovod(args.kvstore) THEN HvdRank(r) ELSE IF kv THEN r ELSE 0
NWrk == IF HasHorovod(args.kvstore) THEN HvdSize ELSE IF kv THEN cluster.nWorkers ELSE 1

\* line 288
NumShards(r) == Len(Gpus(r)) * NWrk

\* lines 290-291
ReadeFlg == args.reader_name.has /\ args.reader_name.val # ""
ReaderName == IF ReadeFlg THEN args.reader_name.val ELSE DefaultReader

\* lines 296-297
PipeBatchSize(r) ==
    IF dali_cpu \in {"None", "False"}
    THEN (args.batch_size \div NWrk) \div Len(Gpus(r))
    ELSE args.batch_size

\* list.index: the 0-based position of the first occurrence
ListIndex(lst, x) == (CHOOSE i \in 1..Len(lst) : lst[i] = x /\ \A j \in 1..(i - 1) : lst[j] # x) - 1

\* line 305 (and 334)
ShardId(gpus, gpu_id, rank) == ListIndex(gpus, gpu_id) + Len(gpus) * rank

\* target_shape[:2], the leading two dimensions
CropShapeLeading(target_shape) == SubSeq(target_shape, 1, 2)

\* lines 307, 336: target_shape[1:]
CropShape(target_shape) == Tail(target_shape)

\* args=args if prop_args else None: lines 316, 345
PropagatedArgs == IF prop_args THEN [isNone |-> FALSE, ns |-> args] ELSE [isNone |-> TRUE, ns |-> args]

\* HybridTrainPipe(...) for the device at position i of gpus: lines 300-317, 143-152, 91-94, 132-137
TrainPipe(r, i) ==
    LET gpus == Gpus(r)
        gpu_id == gpus[i]
    IN  [batch_size |-> PipeBatchSize(r),
         num_threads |-> args.dali_threads,
         device_id |-> gpu_id,
         seed |-> 12 + gpu_id,
         rec_path |-> IF args.data_train.has THEN args.data_train.val
                      ELSE args.data_dir \o "/train.rec",
         shard_id |-> ShardId(gpus, gpu_id, Rank(r)),
         num_shards |-> NumShards(r),
         random_shuffle |-> TRUE,
         crop_shape |-> CropShape(TargetShape),
         output_layout |-> OutputLayout,
         pad_output |-> PadOutput(TargetShape),
         nvjpeg_padding |-> args.dali_nvjpeg_memory_padding * 1024 * 1024,
         prefetch_queue |-> args.dali_prefetch_queue,
         mean |-> get_attribute(PropagatedArgs, "rgb_mean", MeanPixel),
         std |-> get_attribute(PropagatedArgs, "rgb_std", StdPixel),
         reader_name |-> ReaderName]

\* a val_flg that forgets the skip-validation flag
ValFlgIgnoringNoVal == args.data_val.has /\ ~args.data_val.isNone

\* line 319
ValFlg ==
    (args.data_val.has /\ ~args.data_val.isNone) /\ ~(args.no_val.has /\ args.no_val.val)

\* line 323
SeparValFlag == args.dali_separ_val.has \/ args.separ_val.has

\* HybridValPipe(...) for the device at position i of gpus: lines 329-346, 167-176
ValPipe(r, i) ==
    LET gpus == Gpus(r)
        gpu_id == gpus[i]
    IN  [batch_size |-> PipeBatchSize(r),
         num_threads |-> IF args.dali_validation_threads.has
                         THEN args.dali_validation_threads.val ELSE args.dali_threads,
         device_id |-> gpu_id,
         seed |-> 12 + gpu_id,
         rec_path |-> args.data_val.val,
         shard_id |-> IF SeparValFlag THEN 0 ELSE ShardId(gpus, gpu_id, Rank(r)),
         num_shards |-> IF SeparValFlag THEN 1 ELSE NumShards(r),
         random_shuffle |-> FALSE,
         crop_shape |-> CropShape(TargetShape),
         output_layout |-> OutputLayout,
         pad_output |-> PadOutput(TargetShape),
         nvjpeg_padding |-> args.dali_nvjpeg_memory_padding * 1024 * 1024,
         prefetch_queue |-> args.dali_prefetch_queue,
         mean |-> get_attribute(PropagatedArgs, "rgb_mean", MeanPixel),
         std |-> get_attribute(PropagatedArgs, "rgb_std", StdPixel),
         reader_name |-> ReaderName]

\* lines 355-358
TrainSize == IF ReadeFlg THEN -1 ELSE args.num_examples \div NWrk

\* lines 355-364; valpipes[0].epoch_size(reader_name) is the size of the validation set
ValSize(r) ==
    IF ReadeFlg \/ ~ValFlg THEN -1
    ELSE IF SeparValFlag THEN cluster.val_epoch_size
    ELSE IF Rank(r) < cluster.val_epoch_size
         THEN (cluster.val_epoch_size \div NWrk) + 1
         ELSE cluster.val_epoch_size \div NWrk

\* the reader handed to DALIClassificationIterator: line 356
IterReader == IF ReadeFlg THEN [isNone |-> FALSE, name |-> args.reader_name.val]
              ELSE [isNone |-> TRUE, name |-> ""]

NoIterator ==
    [kind |-> "None", pipes |-> <<>>, size |-> -1, reader |-> [isNone |-> TRUE, name |-> ""],
     fill_last_batch |-> TRUE, data_shape |-> <<>>, gpus |-> <<>>, layout |-> ""]

\* DALIClassificationIterator(pipes, size, reader, fill_last_batch): lines 366-367
DaliIterator(pipes, size, fill) ==
    [kind |-> "dali", pipes |-> pipes, size |-> size, reader |-> IterReader,
     fill_last_batch |-> fill, data_shape |-> <<>>, gpus |-> <<>>, layout |-> ""]

\* the value get_rec_pipeline_iter returns to the worker of rank r
get_rec_pipeline_iter(r) ==
    IF IsSynthetic
    THEN [called |-> TRUE, train |-> SyntheticTrain(r), val |-> NoIterator, warned |-> FALSE]
    ELSE LET n == Len(Gpus(r))
             trainpipes == [i \in 1..n |-> TrainPipe(r, i)]
             valpipes == IF ValFlg THEN [i \in 1..n |-> ValPipe(r, i)] ELSE <<>>
         IN  [called |-> TRUE,
              train |-> DaliIterator(trainpipes, TrainSize, TRUE),
              val |-> IF ValFlg THEN DaliIterator(valpipes, ValSize(r), FALSE) ELSE NoIterator,
              warned |-> args.num_examples < cluster.train_epoch_size]

NotCalled == [called |-> FALSE, train |-> NoIterator, val |-> NoIterator, warned |-> FALSE]

\* one worker process calls get_rec_pipeline_iter(args, kv, dali_cpu, prop_args=...)
Call(r) ==
    /\ ~result[r].called
    /\ result' = [result EXCEPT ![r] = get_rec_pipeline_iter(r)]
    /\ UNCHANGED <<args, kv, dali_cpu, prop_args, cluster, chw>>
    /\ UNCHANGED <<iterVars, argVars>>

NextPipe == \E r \in DOMAIN result : Call(r)

----------------------------------------------------------------------------
(* Inputs of get_rec_pipeline_iter *)

\* bounds of the sharding runs
MaxGpus == 2
MaxGpuId == 1
MaxWrk == 3
MaxVal == 5

Absent == [has |-> FALSE, val |-> FALSE]
Flag(b) == [has |-> TRUE, val |-> b]

\* args.image_shape as a tuple, or as the text "C,H,W"
ImageShapeArg(t, isStr) ==
    [isStr |-> isStr, str |-> IF isStr THEN JoinComma(t) ELSE <<>>, tup |-> IF isStr THEN <<>> ELSE t]

\* args.gpus as a list of device ids, or as the text "0,1"
GpusArg(lst, isStr) ==
    [has |-> TRUE, isStr |-> isStr, str |-> IF isStr THEN JoinComma(lst) ELSE <<>>,
     lst |-> IF isStr THEN <<>> ELSE lst]
NoGpusArg == [has |-> FALSE, isStr |-> FALSE, str |-> <<>>, lst |-> <<>>]

\* the parsed command line: the attributes get_rec_pipeline_iter reads
MkArgs(image_shape, input_layout, gpus, n_GPUs, kvstore, synthetic, num_examples, reader_name, data_val, no_val, separ_val, dali_separ_val, rgb_mean, rgb_std) ==
    [image_shape |-> image_shape,
     input_layout |-> input_layout,
     gpus |-> gpus,
     n_GPUs |-> n_GPUs,
     kvstore |-> kvstore,
     synthetic |-> synthetic,
     batch_size |-> 12,
     num_examples |-> num_examples,
     dtype |-> "float16",
     dali_threads |-> 3,
     dali_validation_threads |-> Absent,
     dali_prefetch_queue |-> 3,
     dali_nvjpeg_memory_padding |-> 16,
     reader_name |-> reader_name,
     data_dir |-> "imagenet",
     data_train |-> Absent,
     data_val |-> data_val,
     no_val |-> no_val,
     separ_val |-> separ_val,
     dali_separ_val |-> dali_separ_val,
     rgb_mean |-> rgb_mean,
     rgb_std |-> rgb_std]

DataValPath == [has |-> TRUE, isNone |-> FALSE, val |-> "imagenet/val.rec"]
DataValNone == [has |-> TRUE, isNone |-> TRUE, val |-> ""]
DataValAbsent == [has |-> FALSE, isNone |-> FALSE, val |-> ""]

\* the iterator is not constructed in the runs of get_rec_pipeline_iter
IterIdle ==
    /\ batch_size = 0
    /\ num_gpus = 0
    /\ epoch_size = 0
    /\ cur_sample = 0
    /\ data = <<>>
    /\ label = <<>>
    /\ ret = NoReturn
    /\ lastOp = "init"
    /\ prevOp = "init"
    /\ calls = 0
    /\ yielded = 0
    /\ firstRet = NoReturn
    /\ wasExhausted = FALSE

\* every list of 1..MaxGpus device ids out of 0..MaxGpuId
GpuLists == UNION {[1..n -> 0..MaxGpuId] : n \in 1..MaxGpus}

\* the ways the command line carries the device list: absent, a list, a text
GpuArgs == {NoGpusArg} \cup {GpusArg(l, s) : l \in GpuLists, s \in BOOLEAN}

\* the separate-validation options as parsed: neither registered, or one of
\* --separ-val / --dali-separ-val registered (store_true: False unless given)
SeparArgs ==
    {<<Absent, Absent>>} \cup {<<Flag(b), Absent>> : b \in BOOLEAN}
                         \cup {<<Absent, Flag(b)>> : b \in BOOLEAN}

\* the cluster: no key-value store (one process), a kvstore, or horovod
Clusters ==
    {[backend |-> "none", nWorkers |-> 1]}
    \cup {[backend |-> b, nWorkers |-> n] : b \in {"kv", "horovod"}, n \in 1..MaxWrk}

InitShard ==
    /\ IterIdle
    /\ ArgsIdle
    /\ \E c \in Clusters, V \in 0..MaxVal :
          /\ cluster = [backend |-> c.backend, nWorkers |-> c.nWorkers,
                        val_epoch_size |-> V, train_epoch_size |-> 10]
          /\ kv = (c.backend = "kv")
          /\ result = [r \in 0..(c.nWorkers - 1) |-> NotCalled]
          /\ \E g \in GpuArgs, n \in 1..MaxGpus, sv \in SeparArgs,
                rn \in {Absent, Flag(""), Flag("R")}, nv \in {Absent, Flag(TRUE)} :
                /\ g.has => n = 1
                /\ args = MkArgs(ImageShapeArg(<<3, 224, 224>>, FALSE), "NCHW", g, n,
                                 IF c.backend = "horovod" THEN "horovod" ELSE "device",
                                 Absent, 12, rn, DataValPath, nv, sv[1], sv[2],
                                 Absent, Absent)
    /\ chw = <<3, 224, 224>>
    /\ dali_cpu = "None"
    /\ prop_args = FALSE

SpecShard == InitShard /\ [][NextPipe]_vars

----------------------------------------------------------------------------
(* Claims about sharding *)

Ranks == DOMAIN result
AllCalled == \A r \in Ranks : result[r].called
TrainPipes(r) == result[r].train.pipes
ValPipes(r) == result[r].val.pipes

\* the (rank, position) pairs whose training pipeline reads shard s
ReadersOf(s) ==
    {<<r, i>> \in Ranks \X (1..MaxGpus) :
        i <= Len(TrainPipes(r)) /\ TrainPipes(r)[i].shard_id = s}

\* C1: the training pipeline at position g (0-based) of the GPU list of the worker
\* of rank r gets shard_id = g + r * len(gpus) and num_shards = nWrk * len(gpus);
\* once every worker has built its pipelines, every shard 0 .. num_shards-1 is
\* read by exactly one (rank, position) pair.
C1_ShardBijection ==
    /\ \A r \in Ranks : result[r].called /\ result[r].train.kind = "dali" =>
          \A i \in 1..Len(TrainPipes(r)) :
              /\ TrainPipes(r)[i].shard_id = (i - 1) + r * Len(TrainPipes(r))
              /\ TrainPipes(r)[i].num_shards = Cardinality(Ranks) * Len(TrainPipes(r))
    /\ AllCalled /\ result[0].train.kind = "dali" =>
          \A s \in 0..(Cardinality(Ranks) * Len(TrainPipes(0)) - 1) :
              Cardinality(ReadersOf(s)) = 1

RECURSIVE SumValSizes(_)
SumValSizes(n) == IF n = 0 THEN 0 ELSE result[n - 1].val.size + SumValSizes(n - 1)

\* neither separate-validation option is among the parsed arguments
NoSeparAttr == ~args.separ_val.has /\ ~args.dali_separ_val.has

\* C5: with validation on, the default reader and sharded validation, for a
\* validation set of V examples with V not divisible by nWrk, the validation
\* sizes of ranks 0..nWrk-1 sum to V: ranks below V mod nWrk get V div nWrk + 1,
\* the others V div nWrk.
C5_ValSizesSumToV ==
    LET n == Cardinality(Ranks)
        V == cluster.val_epoch_size
    IN  (/\ AllCalled
         /\ \A r \in Ranks : result[r].val.kind = "dali" /\ result[r].val.reader.isNone
         /\ NoSeparAttr
         /\ V % n # 0)
        => /\ SumValSizes(n) = V
           /\ \A r \in Ranks :
                 result[r].val.size = (V \div n) + (IF r < V % n THEN 1 ELSE 0)

\* --separ-val or --dali-separ-val was given on the command line
SeparValOn ==
    \/ args.separ_val.has /\ args.separ_val.val
    \/ args.dali_separ_val.has /\ args.dali_separ_val.val

\* C7: with validation on, every validation pipeline gets (shard_id 0, num_shards 1)
\* and the worker's validation size is the whole set when the separate-validation
\* flag is true; when it is false or absent each validation pipeline gets the shard
\* of the training pipeline at its position and the size is divided among workers.
C7_SeparateValidationIffFlag ==
    \A r \in Ranks : result[r].called /\ result[r].val.kind = "dali" =>
        LET n == Cardinality(Ranks)
            V == cluster.val_epoch_size
            size == result[r].val.size
        IN  IF SeparValOn
            THEN /\ \A i \in 1..Len(ValPipes(r)) :
                       ValPipes(r)[i].shard_id = 0 /\ ValPipes(r)[i].num_shards = 1
                 /\ result[r].val.reader.isNone => size = V
            ELSE /\ \A i \in 1..Len(ValPipes(r)) :
                       /\ ValPipes(r)[i].shard_id = TrainPipes(r)[i].shard_id
                       /\ ValPipes(r)[i].num_shards = TrainPipes(r)[i].num_shards
                 /\ result[r].val.reader.isNone => size \in {V \div n, (V \div n) + 1}

----------------------------------------------------------------------------
(* Runs of get_rec_pipeline_iter in one process, over shapes, layouts, modes *)

\* target shapes (C, H, W)
Shapes == {<<3, 224, 224>>, <<4, 224, 224>>, <<3, 7, 224>>, <<4, 224, 7>>, <<1, 28, 28>>}

\* --rgb-mean / --rgb-std given as text on the command line
RgbMeanText == [has |-> TRUE, val |-> [t |-> "str", v |-> JoinComma(<<123, 116, 103>>)]]
RgbStdText == [has |-> TRUE, val |-> [t |-> "str", v |-> JoinComma(<<58, 57, 57>>)]]

InitPipe ==
    /\ IterIdle
    /\ ArgsIdle
    /\ cluster = [backend |-> "none", nWorkers |-> 1, val_epoch_size |-> 5, train_epoch_size |-> 10]
    /\ kv = FALSE
    /\ result = [r \in {0} |-> NotCalled]
    /\ chw \in Shapes
    /\ dali_cpu \in {"None", "True"}
    /\ prop_args \in BOOLEAN
    /\ \E isStr \in BOOLEAN, layout \in {"NCHW", "NHWC"}, g \in {<<0>>, <<1, 0>>},
          syn \in {[has |-> FALSE, val |-> 0], [has |-> TRUE, val |-> 0], [has |-> TRUE, val |-> 1]},
          ne \in {-1, 12},
          dv \in {DataValAbsent, DataValNone, DataValPath},
          nv \in {Absent, Flag(FALSE), Flag(TRUE)},
          mean \in {Absent, RgbMeanText}, std \in {Absent, RgbStdText} :
          args = MkArgs(ImageShapeArg(chw, isStr), layout, GpusArg(g, FALSE), 1, "device",
                        syn, ne, Absent, dv, nv, Absent, Absent, mean, std)

SpecPipe == InitPipe /\ [][NextPipe]_vars

----------------------------------------------------------------------------
(* Claims about the pipelines' configuration *)

\* every pipeline the call of rank r built, training then validation
AllPipes(r) == TrainPipes(r) \o ValPipes(r)

\* the text "3,224,224"
Text_3_224_224 == <<"3", ",", "2", "2", "4", ",", "2", "2", "4">>

\* C6: on the non-synthetic path every pipeline gets crop shape (H, W) of the target
\* shape (C, H, W), given as a tuple or as the text "C,H,W"; pad_output is true
\* exactly when C = 4; the output layout is NHWC exactly when input_layout is NHWC;
\* "3,224,224" with NCHW gives crop (224, 224), NCHW, no padding.
C6_CropPadLayout ==
    \A r \in Ranks : result[r].called /\ result[r].train.kind = "dali" =>
        \A i \in 1..Len(AllPipes(r)) :
            LET p == AllPipes(r)[i]
            IN  /\ p.crop_shape = <<chw[2], chw[3]>>
                /\ p.pad_output = (chw[1] = 4)
                /\ (p.output_layout = "NHWC") = (args.input_layout = "NHWC")
                /\ p.output_layout \in {"NHWC", "NCHW"}
                /\ (args.image_shape.isStr /\ args.image_shape.str = Text_3_224_224
                        /\ args.input_layout = "NCHW")
                   => (p.crop_shape = <<224, 224>> /\ p.output_layout = "NCHW" /\ ~p.pad_output)

\* pipelines for two devices, training and validation, built from the text "3,224,224"
C6_Witness ==
    /\ result[0].called
    /\ result[0].train.kind = "dali"
    /\ Len(TrainPipes(0)) = 2
    /\ Len(ValPipes(0)) = 2
    /\ args.image_shape.isStr
    /\ args.image_shape.str = Text_3_224_224
    /\ args.input_layout = "NCHW"

\* synthetic mode, validation path and skip-validation flag, read off the arguments
SyntheticOn == args.synthetic.has /\ args.synthetic.val = 1
ValPathGiven == args.data_val.has /\ ~args.data_val.isNone
NoValSet == args.no_val.has /\ args.no_val.val

get_attribute_value(a, attr_name, def_value) ==
    IF HasAttr(a, attr_name)
    THEN LET attr == a.ns[attr_name].val
         IN  IF attr.t = "str" THEN FloatsOf(attr.v) ELSE attr
    ELSE def_value

\* C9: the mean and std handed to crop-mirror-normalize are the ImageNet defaults
\* when no arguments are propagated or they carry no rgb_mean / rgb_std, and
\* otherwise the value the arguments carry (a comma-separated text parsed into the
\* list of its numbers).
C9_NormalizationFromArgs ==
    \A r \in Ranks : result[r].called /\ result[r].train.kind = "dali" =>
        \A i \in 1..Len(AllPipes(r)) :
            LET p == AllPipes(r)[i]
                mean == get_attribute_value(PropagatedArgs, "rgb_mean", MeanPixel)
                std == get_attribute_value(PropagatedArgs, "rgb_std", StdPixel)
            IN  /\ p.mean.t = mean.t /\ p.mean.v = mean.v
                /\ p.std.t = std.t /\ p.std.v = std.v

----------------------------------------------------------------------------
(* add_dali_pipeline_args: lines 36-76 *)

\* option strings, character by character
OptSeparVal == <<"-", "-", "s", "e", "p", "a", "r", "-", "v", "a", "l">>
OptDaliSeparVal == <<"-", "-", "d", "a", "l", "i", "-", "s", "e", "p", "a", "r", "-", "v", "a", "l">>
OptDaliThreads == <<"-", "-", "d", "a", "l", "i", "-", "t", "h", "r", "e", "a", "d", "s">>
OptDaliPrefetchQueue == <<"-", "-", "d", "a", "l", "i", "-", "p", "r", "e", "f", "e", "t", "c", "h", "-", "q", "u", "e", "u", "e">>
OptDaliNvjpegMemoryPadding == <<"-", "-", "d", "a", "l", "i", "-", "n", "v", "j", "p", "e", "g", "-", "m", "e", "m", "o", "r", "y", "-", "p", "a", "d", "d", "i", "n", "g">>
OptNumExamples == <<"-", "-", "n", "u", "m", "_", "e", "x", "a", "m", "p", "l", "e", "s">>
OptReaderNameOpt == <<"-", "-", "r", "e", "a", "d", "e", "r", "_", "n", "a", "m", "e">>
OptDaliThreadsUnderscore == <<"-", "-", "d", "a", "l", "i", "_", "t", "h", "r", "e", "a", "d", "s">>
OptNumExamplesDash == <<"-", "-", "n", "u", "m", "-", "e", "x", "a", "m", "p", "l", "e", "s">>
OptVerbose == <<"-", "v">>
OptLr == <<"-", "-", "l", "r">>
OptBatchSize == <<"-", "-", "b", "a", "t", "c", "h", "-", "s", "i", "z", "e">>

\* synonyms_list: line 36.  The second component is written ('--dali-separ-val'),
\* a parenthesised string, not a one-element tuple.
synonyms_list == <<[first |-> OptSeparVal, second |-> OptDaliSeparVal]>>

\* nameB in synonims[1] for a str synonims[1]: the substring test
IsSubstring(sub, str) ==
    \E i \in 0..(Len(str) - Len(sub)) : SubSeq(str, i + 1, i + Len(sub)) = sub

\* are_synonyms: lines 46-52
RECURSIVE SynonymsFrom(_, _, _)
SynonymsFrom(k, nameA, nameB) ==
    IF k > Len(synonyms_list) THEN FALSE
    ELSE IF synonyms_list[k].first = nameA THEN IsSubstring(nameB, synonyms_list[k].second)
    ELSE SynonymsFrom(k + 1, nameA, nameB)

are_synonyms(nameA, nameB) ==
    IF nameA = nameB THEN TRUE ELSE SynonymsFrom(1, nameA, nameB)

\* an argument tuple: (name, action, help) or (name, type, default, help)
Arg3(name, origin) == [name |-> name, len |-> 3, origin |-> origin]
Arg4(name, origin) == [name |-> name, len |-> 4, origin |-> origin]

\* default_args as first built: lines 54-59
DefaultArgs ==
    <<Arg3(OptSeparVal, "default"),
      Arg4(OptDaliThreads, "default"),
      Arg4(OptDaliPrefetchQueue, "default"),
      Arg4(OptDaliNvjpegMemoryPadding, "default"),
      Arg4(OptNumExamples, "default"),
      Arg4(OptReaderNameOpt, "default")>>

\* list.remove of the element at position i
RemoveAt(lst, i) == SubSeq(lst, 1, i - 1) \o SubSeq(lst, i + 1, Len(lst))

\* the inner loop, lines 63-66: the first default that is a synonym of arg is removed
RemoveFirstSynonym(defs, arg) ==
    LET hits == {i \in 1..Len(defs) : are_synonyms(defs[i].name, arg.name)}
    IN  IF hits = {} THEN defs
        ELSE RemoveAt(defs, CHOOSE i \in hits : \A j \in hits : i <= j)

\* the outer loop, line 62
RECURSIVE RemoveDuplicates(_, _)
RemoveDuplicates(tasks, defs) ==
    IF tasks = <<>> THEN defs
    ELSE RemoveDuplicates(Tail(tasks), RemoveFirstSynonym(defs, Head(tasks)))

\* str.lstrip('-')
RECURSIVE LStripDash(_)
LStripDash(name) ==
    IF name # <<>> /\ Head(name) = "-" THEN LStripDash(Tail(name)) ELSE name

\* the destination argparse derives for an option string: the dashes in front
\* stripped, the other dashes turned into underscores
Dest(name) ==
    LET body == LStripDash(name)
    IN  [i \in 1..Len(body) |-> IF body[i] = "-" THEN "_" ELSE body[i]]

\* group.add_argument for each of task_args, then default_args: lines 69-74
Registered(tasks, defs) ==
    [i \in 1..(Len(tasks) + Len(defs)) |->
        LET arg == (tasks \o defs)[i]
        IN  [name |-> arg.name, dest |-> Dest(arg.name), origin |-> arg.origin,
             action |-> IF arg.len = 3 THEN "store_true" ELSE "store"]]

\* the call add_dali_pipeline_args(parser, task_args, do_parsing)
AddDaliPipelineArgs ==
    /\ returned = "none"
    /\ default_args' = RemoveDuplicates(task_args, DefaultArgs)
    /\ registered' = Registered(task_args, default_args')
    /\ returned' = IF do_parsing THEN "namespace" ELSE "parser"
    /\ UNCHANGED <<task_args, do_parsing>>
    /\ UNCHANGED <<iterVars, pipeVars>>

NextArgs == AddDaliPipelineArgs

\* bound of the caller's list
MaxTaskArgs == 2

\* option strings a caller may define
CallerOptions ==
    {OptSeparVal, OptDaliSeparVal, OptDaliThreads, OptDaliThreadsUnderscore, OptNumExamples,
     OptNumExamplesDash, OptReaderNameOpt, OptVerbose, OptLr, OptBatchSize}

\* the caller's lists: up to MaxTaskArgs options, no option string twice (argparse
\* refuses a repeated option string)
TaskArgLists ==
    {l \in UNION {[1..n -> CallerOptions] : n \in 0..MaxTaskArgs} :
        \A i, j \in DOMAIN l : l[i] = l[j] => i = j}

InitArgs ==
    /\ IterIdle
    /\ PipeIdle
    /\ \E l \in TaskArgLists, k \in [1..MaxTaskArgs -> {3, 4}] :
          task_args = [i \in DOMAIN l |-> [name |-> l[i], len |-> k[i], origin |-> "task"]]
    /\ do_parsing \in BOOLEAN
    /\ default_args = DefaultArgs
    /\ registered = <<>>
    /\ returned = "none"

SpecArgs == InitArgs /\ [][NextArgs]_vars

----------------------------------------------------------------------------
(* Claim about the argument merge *)

\* nameB is declared a synonym of nameA in synonyms_list
DeclaredSynonym(nameA, nameB) ==
    \E k \in 1..Len(synonyms_list) :
        synonyms_list[k].first = nameA /\ synonyms_list[k].second = nameB

\* the caller's option name stands for the default option defName: the same option
\* string, the same destination, or a declared synonym
SameOption(defName, name) ==
    name = defName \/ Dest(name) = Dest(defName) \/ DeclaredSynonym(defName, name)

\* the caller defines no two options that stand for the same default
CallerListProper ==
    \A d \in 1..Len(DefaultArgs) : \A i, j \in 1..Len(task_args) :
        (SameOption(DefaultArgs[d].name, task_args[i].name)
            /\ SameOption(DefaultArgs[d].name, task_args[j].name)) => i = j

\* C4: after the merge, for every default option: if the caller defines an option
\* with the same option string, the same destination or a declared synonym, the
\* registered list holds exactly one option for it and it is the caller's;
\* otherwise the default option is kept.  The caller's options come first.
C4_CallerWinsNoDuplicates ==
    (returned # "none" /\ CallerListProper) =>
        /\ SubSeq(registered, 1, Len(task_args))
              = [i \in 1..Len(task_args) |->
                    [name |-> task_args[i].name, dest |-> Dest(task_args[i].name),
                     origin |-> "task",
                     action |-> IF task_args[i].len = 3 THEN "store_true" ELSE "store"]]
        /\ \A d \in 1..Len(DefaultArgs) :
              LET defName == DefaultArgs[d].name
                  same == {i \in 1..Len(registered) : SameOption(defName, registered[i].name)}
              IN  IF \E i \in 1..Len(task_args) : SameOption(defName, task_args[i].name)
                  THEN Cardinality(same) = 1 /\ \A i \in same : registered[i].origin = "task"
                  ELSE \E i \in same :
                          registered[i].origin = "default" /\ registered[i].name = defName

====
